---- MODULE Spec2Model ----
(***************************************************************************)
(* A model of wikidump_downloader.py: main() with its completion marker,   *)
(* the download() coordinator, the WikiDumpTask queue, the worker threads  *)
(* with their retry loop, the shared mirror selector WM, and verify().     *)
(***************************************************************************)
EXTENDS Integers, Sequences, FiniteSets, TLC

\* ------------------------------------------------------------------ bounds
MaxFiles == 2      \* number of files in the manifest
MaxThreads == 2    \* largest --threads value of a run
MaxFails == 1      \* transfer attempts that may fail during one run
MaxManifest == 5   \* largest manifest of the runs that only build or verify

MaxRuns == 2       \* runs of main() in a row on the same directory

\* ------------------------------------------------------- program constants
\* len(WIKIMEDIA_MIRRORS)
NumMirrors == 6

\* ------------------------------------------------------------------ values
\* Python's None; every optional value is a tuple, so None compares with all.
None == <<>>
Url(f) == <<"url", f>>
Path(f) == <<"path", f>>
Num(n) == <<n>>

Threads == 1..MaxThreads
WIKIMEDIA_MIRRORS == [i \in 0..(NumMirrors - 1) |-> <<"mirror", i>>]

Min(a, b) == IF a < b THEN a ELSE b
Max(a, b) == IF a > b THEN a ELSE b

VARIABLES
  args,         \* the parsed command line: proxies, verify, start, end, threads
  dump_dict,    \* the manifest's files, in the order the manifest lists them
  disk,         \* the content at each file's destination path
  marker,       \* COMPLETE.txt exists
  mainpc,       \* position of the main thread
  spawned,      \* threads started so far by download()
  url_list, file_list, total_num, lock,    \* the WikiDumpTask
  index,        \* WM.index
  wpc,          \* position of each worker thread
  wl,           \* each worker's locals
  vi, pass_files, miss_files, crash_files, result,   \* verify()
  handed,       \* history: the lists download() handed to WikiDumpTask
  claimed,      \* history: the successful assign_task results, in order
  failures,     \* attempts the network will still fail (the model's bound)
  nmirror,      \* history: get_mirror calls of the run
  nretrieve,    \* history: urlretrieve calls of the run
  entered,      \* history: per file, the times a worker entered its retry loop
  downloaded,   \* history: per file, the "File Downloaded" lines logged
  disk0, marker0,  \* the disk and the marker when the first run started
  bad,          \* the files whose transfer fails at every attempt
  runs          \* the runs of main() that returned before this one

vars == <<args, dump_dict, disk, marker, mainpc, spawned, url_list, file_list,
          total_num, lock, index, wpc, wl, vi, pass_files, miss_files,
          crash_files, result, handed, claimed, failures, nmirror, nretrieve,
          entered, downloaded, disk0, marker0, bad, runs>>

queueVars == <<url_list, file_list, total_num, lock>>
verifyVars == <<vi, pass_files, miss_files, crash_files, result>>
inputVars == <<args, dump_dict, disk0, marker0, bad, runs>>
histVars == <<handed, claimed, failures, nmirror, nretrieve, entered, downloaded>>

\* ------------------------------------------------------------ pure helpers
\* sorted(list(dump_dict.keys())): insertion into an ascending list
RECURSIVE Insert(_, _)
Insert(x, s) ==
  IF s = <<>> THEN <<x>>
  ELSE IF x <= Head(s) THEN <<x>> \o s
  ELSE <<Head(s)>> \o Insert(x, Tail(s))

RECURSIVE Sorted(_)
Sorted(s) == IF s = <<>> THEN <<>> ELSE Insert(Head(s), Sorted(Tail(s)))

\* Python's bound of a slice index: negative counts from the end, then clamp
SliceBound(i, n) == IF i < 0 THEN Max(i + n, 0) ELSE Min(i, n)

\* s[lo:hi]
PySlice(s, lo, hi) ==
  SubSeq(s, SliceBound(lo, Len(s)) + 1, SliceBound(hi, Len(s)))

\* s[lo:]
PySliceFrom(s, lo) == SubSeq(s, SliceBound(lo, Len(s)) + 1, Len(s))

\* the branch of download() that applies the end index
EndApplies(end, n) == end > 0 /\ end <= n

\* mutant: the slice starts at index start, not start - 1
DumpFilesFromStart(dict, start, end) ==
  LET dump_files == Sorted(dict)
  IN IF EndApplies(end, Len(dump_files))
       THEN PySlice(dump_files, start, end)
       ELSE PySliceFrom(dump_files, start)

\* dump_files of download() after slicing
DumpFiles(dict, start, end) ==
  LET dump_files == Sorted(dict)
  IN IF EndApplies(end, Len(dump_files))
       THEN PySlice(dump_files, start - 1, end)
       ELSE PySliceFrom(dump_files, start - 1)

\* the manifest entry's url and md5, and md5() of a local content
ManifestUrl(f) == Url(f)
ManifestMd5(f) == <<"md5", f, "complete">>
Md5(f, content) == <<"md5", f, content>>

\* file_list and url_list of download()
FileListOf(files) == [i \in 1..Len(files) |-> Path(files[i])]
UrlListOf(files) == [i \in 1..Len(files) |-> ManifestUrl(files[i])]

\* a worker's locals; those no later line reads are kept at NoLocals
NoLocals == [url |-> None, file_name |-> None, cur_progress |-> None,
             total_num |-> None, exists |-> FALSE, tmp |-> 0]

\* ----------------------------------------------------------- initial state
Contents == {"absent", "partial", "complete"}

\* the manifest of n files, listed in descending order of filename
Descending(n) == [i \in 1..n |-> n + 1 - i]

\* the set of a sequence's elements
Range(s) == {s[i] : i \in 1..Len(s)}

\* the state when main() starts; badSets: the choices of the files that
\* never transfer
InitFull(argSet, dictSet, contentSet, markerSet, failSet, badSets) ==
  /\ args \in argSet
  /\ dump_dict \in dictSet
  /\ bad \in {b \in badSets : b \subseteq Range(dump_dict)}
  /\ runs = 0
  /\ entered = [f \in Range(dump_dict) |-> 0]
  /\ downloaded = [f \in Range(dump_dict) |-> 0]
  /\ disk0 \in [Range(dump_dict) -> contentSet]
  /\ marker0 \in markerSet
  /\ failures \in failSet
  /\ disk = disk0
  /\ marker = marker0
  /\ mainpc = "main"
  /\ spawned = 0
  /\ url_list = <<>>
  /\ file_list = <<>>
  /\ total_num = 0
  /\ lock = FALSE
  /\ index = 0
  /\ wpc = [w \in Threads |-> "idle"]
  /\ wl = [w \in Threads |-> NoLocals]
  /\ vi = 1
  /\ pass_files = <<>>
  /\ miss_files = <<>>
  /\ crash_files = <<>>
  /\ result = FALSE
  /\ handed = [file_list |-> <<>>, url_list |-> <<>>]
  /\ claimed = <<>>
  /\ nmirror = 0
  /\ nretrieve = 0

\* a network on which every transfer can succeed
InitWith(argSet, dictSet, contentSet, markerSet, failSet) ==
  InitFull(argSet, dictSet, contentSet, markerSet, failSet, {{}})

\* the manifests of n files, n <= max, in every order
Orders(n) == {d \in [1..n -> 1..n] : \A i, j \in 1..n : d[i] = d[j] => i = j}
Manifests(max) == UNION {Orders(n) : n \in 1..max}

\* --start and --end as argparse defaults them
RunArgs(modes) == [proxies : BOOLEAN, verify : modes, start : {1}, end : {-1},
                   threads : Threads]

\* a download run: each destination absent or left whole by an earlier run
InitDownload ==
  InitWith(RunArgs({FALSE}), {Descending(MaxFiles)}, {"absent", "complete"}, BOOLEAN,
           {MaxFails})

\* a verify run: each destination absent, whole, or left partial
InitVerify ==
  InitWith(RunArgs({TRUE}), {Descending(MaxFiles)}, Contents, BOOLEAN, {0})

Init == InitDownload \/ InitVerify

\* two workers and a network that fails until the cursor is at the list's
\* last but one entry: the calls before the two racing ones all fail
RaceArgs == [proxies : {TRUE}, verify : {FALSE}, start : {1}, end : {-1},
             threads : {MaxThreads}]
InitRace ==
  InitWith(RaceArgs, {Descending(MaxFiles)}, {"absent"}, {FALSE}, {NumMirrors - 2})

\* one worker, the only caller of get_mirror(), and a network that fails
\* often enough for the cursor to go round the list twice
SingleArgs == [proxies : {TRUE}, verify : {FALSE}, start : {1}, end : {-1},
               threads : {1}]
InitSingle ==
  InitWith(SingleArgs, {Descending(MaxFiles)}, {"absent", "complete"}, {FALSE},
           {2 * NumMirrors})

\* a full pool of workers and fewer files that never transfer than workers
StallArgs == [proxies : BOOLEAN, verify : {FALSE}, start : {1}, end : {-1},
              threads : {MaxThreads}]
InitStall ==
  InitFull(StallArgs, {Descending(MaxFiles)}, {"absent"}, {FALSE}, {MaxFails},
           {b \in SUBSET (1..MaxFiles) : Cardinality(b) < MaxThreads})

\* download runs of one worker or two, with a proxy or without, failing a
\* bounded number of attempts
FairArgs == [proxies : BOOLEAN, verify : {FALSE}, start : {1}, end : {-1},
             threads : {1, 2}]
InitFair ==
  InitWith(FairArgs, {Descending(MaxFiles)}, {"absent", "complete"}, {FALSE},
           {MaxFails})

\* download() up to WikiDumpTask(...): every manifest order, --start, --end
BuildArgs == [proxies : {TRUE}, verify : {FALSE}, start : 0..(MaxManifest + 1),
              end : (-2)..(MaxManifest + 1), threads : {1}]
InitBuild ==
  InitWith(BuildArgs, Manifests(MaxManifest), {"absent"}, {FALSE}, {0})

\* verify runs over manifests of up to MaxManifest files
VerifyArgs == [proxies : {FALSE}, verify : {TRUE}, start : {1}, end : {-1},
               threads : {1}]
InitVerifyOnly ==
  InitWith(VerifyArgs, {Descending(n) : n \in 1..MaxManifest}, Contents,
           BOOLEAN, {0})

\* -------------------------------------------------------------- main thread
\* mutant: main() goes on although COMPLETE.txt exists
ShortCircuitsNever(exists) == FALSE

\* main(): if space_stats_flag.exists(): ... return
ShortCircuits(exists) == exists

\* main(): the marker short-circuit, then verify mode or download mode
Main ==
  /\ mainpc = "main"
  /\ mainpc' = IF ShortCircuits(marker) THEN "done"
               ELSE IF args.verify THEN "verify" ELSE "download"
  /\ UNCHANGED <<disk, marker, spawned, queueVars, index, wpc, wl, verifyVars,
                 histVars, inputVars>>

\* download(): the task lists and WikiDumpTask(file_list, url_list)
Build ==
  /\ mainpc = "download"
  /\ LET dump_files == DumpFiles(dump_dict, args.start, args.end)
     IN /\ file_list' = FileListOf(dump_files)
        /\ url_list' = UrlListOf(dump_files)
        /\ total_num' = Len(UrlListOf(dump_files))
        /\ handed' = [file_list |-> FileListOf(dump_files),
                      url_list |-> UrlListOf(dump_files)]
  /\ lock' = FALSE
  /\ mainpc' = "spawn"
  /\ UNCHANGED <<disk, marker, spawned, index, wpc, wl, verifyVars, claimed,
                 failures, nmirror, nretrieve, entered, downloaded, inputVars>>

\* download(): for i in range(thread_num): t.start()
Spawn ==
  /\ mainpc = "spawn"
  /\ IF spawned < args.threads
       THEN /\ spawned' = spawned + 1
            /\ wpc' = [wpc EXCEPT ![spawned + 1] = "start"]
            /\ mainpc' = mainpc
       ELSE /\ mainpc' = "join"
            /\ UNCHANGED <<spawned, wpc>>
  /\ UNCHANGED <<disk, marker, queueVars, index, wl, verifyVars, histVars,
                 inputVars>>

\* a thread whose run has ended, normally or by an uncaught exception
Dead(w) == wpc[w] \in {"exit", "crashed"}

\* download(): t.join() of every thread but the main one
Join ==
  /\ mainpc = "join"
  /\ \A w \in 1..spawned : Dead(w)
  /\ mainpc' = "done"
  /\ UNCHANGED <<disk, marker, spawned, queueVars, index, wpc, wl, verifyVars,
                 histVars, inputVars>>

\* ----------------------------------------------------------- WikiDumpTask
workerFrame == <<marker, mainpc, spawned, verifyVars, inputVars>>

Goto(w, pc) == wpc' = [wpc EXCEPT ![w] = pc]

\* mutant: acquire() that does not wait for the lock
CanAcquireAlways == TRUE

\* the guard of lock.acquire()
CanAcquire == ~lock

\* mutant: pop() in place of pop(0)
PopLast(list) == list[Len(list)]

\* mutant: pop(0) returns the head and leaves the list as it was
PopRestKeeps(list) == list

\* url_list.pop(0): what is returned and what is left
PopHead(list) == Head(list)
PopRest(list) == Tail(list)

\* worker(): the opener set up only under args.proxies, then installed
WorkerStart(w) ==
  /\ wpc[w] = "start"
  /\ Goto(w, IF args.proxies THEN "assign" ELSE "crashed")
  /\ UNCHANGED <<disk, queueVars, index, wl, histVars, workerFrame>>

\* assign_task(): lock.acquire() and the three locals set to None
Acquire(w) ==
  /\ wpc[w] = "assign"
  /\ CanAcquire
  /\ lock' = TRUE
  /\ wl' = [wl EXCEPT ![w].url = None, ![w].file_name = None,
                      ![w].cur_progress = None]
  /\ Goto(w, "pop_url")
  /\ UNCHANGED <<disk, url_list, file_list, total_num, index, histVars,
                 workerFrame>>

\* assign_task(): if len(self.url_list) > 0: url = self.url_list.pop(0)
PopUrl(w) ==
  /\ wpc[w] = "pop_url"
  /\ IF Len(url_list) > 0
       THEN /\ wl' = [wl EXCEPT ![w].url = PopHead(url_list)]
            /\ url_list' = PopRest(url_list)
            /\ Goto(w, "pop_file")
       ELSE /\ Goto(w, "release")
            /\ UNCHANGED <<wl, url_list>>
  /\ UNCHANGED <<disk, file_list, total_num, lock, index, histVars, workerFrame>>

\* assign_task(): file_name = self.file_list.pop(0), then cur_progress;
\* pop(0) of an empty list raises IndexError, which leaves through finally
PopFile(w) ==
  /\ wpc[w] = "pop_file"
  /\ IF Len(file_list) > 0
       THEN /\ wl' = [wl EXCEPT ![w].file_name = PopHead(file_list),
                                ![w].cur_progress = Num(total_num - Len(url_list))]
            /\ file_list' = PopRest(file_list)
            /\ Goto(w, "release")
       ELSE /\ Goto(w, "raise")
            /\ UNCHANGED <<wl, file_list>>
  /\ UNCHANGED <<disk, url_list, total_num, lock, index, histVars, workerFrame>>

\* mutant: the lock is not released
ReleaseLockSkipped == lock

\* lock.release(): the lock afterwards
ReleaseLock == FALSE

\* mutant: the total is None when the url is
ReturnedTotalVoid(url, total) == IF url = None THEN None ELSE Num(total)

\* assign_task(): the last value of return url, file_name, cur_progress,
\* self.total_num
ReturnedTotal(url, total) == Num(total)

\* assign_task(): finally: lock.release(), then the return of the four values
Release(w) ==
  /\ wpc[w] \in {"release", "raise"}
  /\ lock' = ReleaseLock
  /\ IF wpc[w] = "raise"
       THEN /\ Goto(w, "crashed")
            /\ UNCHANGED <<wl, claimed>>
       ELSE /\ wl' = [wl EXCEPT ![w].total_num = ReturnedTotal(wl[w].url, total_num)]
            /\ claimed' = IF wl[w].url # None
                            THEN Append(claimed, <<wl[w].url, wl[w].file_name,
                                                   wl[w].cur_progress, Num(total_num)>>)
                            ELSE claimed
            /\ Goto(w, "assigned")
  /\ UNCHANGED <<disk, url_list, file_list, total_num, index, handed, failures,
                 nmirror, nretrieve, entered, downloaded, workerFrame>>

\* ------------------------------------------------------------------ worker
\* worker(): if not url: break
NotUrl(url) == url = None

\* the file a destination path names
NameOf(path) == path[2]

\* file_name.exists()
Exists(path) == disk[NameOf(path)] # "absent"

\* mutant: the retry loop is entered whatever the existence check found
EntersRetryAlways(exists) == TRUE

\* worker(): whether the retry loop is entered after the existence check
EntersRetry(exists) == ~exists

\* worker(): the result of assign_task(): if not url: break; then
\* if not file_name.exists(): the retry loop, else: "File Exists, Skip"
Check(w) ==
  /\ wpc[w] = "assigned"
  /\ IF NotUrl(wl[w].url)
       THEN /\ Goto(w, "exit")
            /\ wl' = [wl EXCEPT ![w] = NoLocals]
       ELSE IF EntersRetry(Exists(wl[w].file_name))
         THEN /\ Goto(w, "get_mirror")
              /\ wl' = [wl EXCEPT ![w].exists = Exists(wl[w].file_name),
                                  ![w].cur_progress = None,
                                  ![w].total_num = None]
         ELSE /\ Goto(w, "assign")
              /\ wl' = [wl EXCEPT ![w] = NoLocals]
  /\ entered' = IF ~NotUrl(wl[w].url) /\ EntersRetry(Exists(wl[w].file_name))
                  THEN [entered EXCEPT ![NameOf(wl[w].file_name)] = @ + 1]
                  ELSE entered
  /\ UNCHANGED <<disk, queueVars, index, handed, claimed, failures, nmirror,
                 nretrieve, downloaded, workerFrame>>

\* the call counters of a run: a worker that retries for ever makes calls
\* without end, and the counters stop at CallCap, above every count of a run
\* in which each task ends
CallCap == 2 * NumMirrors + MaxFiles + MaxFails
Counted(n) == Min(n + 1, CallCap)

\* mutant: the cursor advances from the list's last entry too
AdvancesPastEnd(i) == i < NumMirrors

\* get_mirror(): if self.index < len(WIKIMEDIA_MIRRORS) - 1
Advances(i) == i < NumMirrors - 1

\* get_mirror(): self.index < len(WIKIMEDIA_MIRRORS) - 1, read of self.index
GmCompare(w) ==
  /\ wpc[w] = "get_mirror"
  /\ nmirror' = Counted(nmirror)
  /\ IF Advances(index)
       THEN /\ Goto(w, "gm_load")
            /\ wl' = wl
       ELSE /\ Goto(w, "gm_store")
            /\ wl' = [wl EXCEPT ![w].tmp = 0]
  /\ UNCHANGED <<disk, queueVars, index, handed, claimed, failures, nretrieve,
                 entered, downloaded, workerFrame>>

\* get_mirror(): self.index += 1, the read of self.index and the addition
GmLoad(w) ==
  /\ wpc[w] = "gm_load"
  /\ wl' = [wl EXCEPT ![w].tmp = index + 1]
  /\ Goto(w, "gm_store")
  /\ UNCHANGED <<disk, queueVars, index, histVars, workerFrame>>

\* get_mirror(): the store to self.index, of index + 1 or of 0
GmStore(w) ==
  /\ wpc[w] = "gm_store"
  /\ index' = wl[w].tmp
  /\ wl' = [wl EXCEPT ![w].tmp = 0]
  /\ Goto(w, "gm_return")
  /\ UNCHANGED <<disk, queueVars, histVars, workerFrame>>

\* mutant: an exception of an attempt is not caught and ends the thread
OnFailureDies == "crashed"

\* mutant: after an exception the same mirror's url is tried again
OnFailureSameMirror == "retrieve"

\* worker(): except Exception as e: logging.warning(...), and the while 1
\* loop starts its next round at get_mirror()
OnFailure == "get_mirror"

\* a list subscript that does not raise IndexError (no negative one arises)
InRange(i) == i >= 0 /\ i < NumMirrors

\* get_mirror(): return WIKIMEDIA_MIRRORS[self.index]; the IndexError of an
\* index past the list is caught by the worker's except, and the loop goes on
GmReturn(w) ==
  /\ wpc[w] = "gm_return"
  /\ Goto(w, IF InRange(index) THEN "retrieve" ELSE OnFailure)
  /\ UNCHANGED <<disk, queueVars, index, wl, histVars, workerFrame>>

\* whether one more attempt of the run may fail
MayFail == failures > 0

\* an attempt for file_name can raise, can end well, and what a raise costs
Fails(file_name) == NameOf(file_name) \in bad \/ MayFail
Succeeds(file_name) == NameOf(file_name) \notin bad
Spend(file_name) == IF NameOf(file_name) \in bad THEN failures ELSE failures - 1

\* urlretrieve(): urlopen() raises before the file is opened (caught by the
\* worker's except: a warning, and the loop goes on), or the destination is
\* opened "wb" (created or truncated) to receive the blocks
Retrieve(w) ==
  /\ wpc[w] = "retrieve"
  /\ nretrieve' = Counted(nretrieve)
  /\ \/ /\ Fails(wl[w].file_name)
        /\ failures' = Spend(wl[w].file_name)
        /\ Goto(w, OnFailure)
        /\ disk' = disk
     \/ /\ disk' = [disk EXCEPT ![NameOf(wl[w].file_name)] = "partial"]
        /\ Goto(w, "writing")
        /\ failures' = failures
  /\ UNCHANGED <<queueVars, index, wl, handed, claimed, nmirror, entered,
                 downloaded, workerFrame>>

\* the destination after a transfer that raised while the blocks were written
AfterFailedWrite(content) == content

\* urlretrieve(): the blocks are written; the transfer raises (a read error,
\* a timeout, ContentTooShortError: caught, a warning, the loop goes on) or
\* ends: "File Downloaded", break
Writing(w) ==
  /\ wpc[w] = "writing"
  /\ \/ /\ Fails(wl[w].file_name)
        /\ failures' = Spend(wl[w].file_name)
        /\ Goto(w, OnFailure)
        /\ disk' = [disk EXCEPT ![NameOf(wl[w].file_name)] = AfterFailedWrite(@)]
        /\ wl' = wl
        /\ downloaded' = downloaded
     \/ /\ Succeeds(wl[w].file_name)
        /\ disk' = [disk EXCEPT ![NameOf(wl[w].file_name)] = "complete"]
        /\ Goto(w, "assign")
        /\ failures' = failures
        /\ wl' = [wl EXCEPT ![w] = NoLocals]
        /\ downloaded' = [downloaded EXCEPT ![NameOf(wl[w].file_name)] = @ + 1]
  /\ UNCHANGED <<queueVars, index, handed, claimed, nmirror, nretrieve, entered,
                 workerFrame>>

\* ------------------------------------------------------------------ verify
mainFrame == <<spawned, queueVars, index, wpc, wl, histVars, inputVars>>

\* mutant: a crashed file is reported and left where it is
AfterCrashKept(content) == content

\* verify(): os.remove(file_path) of a crashed file
AfterCrash(content) == "absent"

\* verify(): one manifest entry: passed, crashed (and removed) or missing
VerifyStep ==
  /\ mainpc = "verify"
  /\ vi <= Len(dump_dict)
  /\ LET file == dump_dict[vi]
         gt_md5 == ManifestMd5(file)
     IN IF Exists(Path(file))
          THEN IF Md5(file, disk[file]) = gt_md5
                 THEN /\ pass_files' = Append(pass_files, file)
                      /\ UNCHANGED <<crash_files, miss_files, disk>>
                 ELSE /\ crash_files' = Append(crash_files, file)
                      /\ disk' = [disk EXCEPT ![file] = AfterCrash(@)]
                      /\ UNCHANGED <<pass_files, miss_files>>
          ELSE /\ miss_files' = Append(miss_files, file)
               /\ UNCHANGED <<pass_files, crash_files, disk>>
  /\ vi' = vi + 1
  /\ UNCHANGED <<marker, mainpc, result, mainFrame>>

\* mutant: crashed files do not fail the verification
VerifyResultMissOnly(miss, crash) == Len(miss) = 0

\* verify(): the value returned
VerifyResult(miss, crash) == Len(miss) = 0 /\ Len(crash) = 0

\* verify(): the counts are printed and the result returned to main()
VerifyReturn ==
  /\ mainpc = "verify"
  /\ vi > Len(dump_dict)
  /\ result' = VerifyResult(miss_files, crash_files)
  /\ mainpc' = "verified"
  /\ UNCHANGED <<disk, marker, vi, pass_files, miss_files, crash_files, mainFrame>>

\* mutant: the marker is written whatever verify() returned
WritesMarkerAlways(res) == TRUE

\* main(): whether COMPLETE.txt is written after verify()
WritesMarker(res) == res

\* main(): if result: COMPLETE.txt is written
WriteMarker ==
  /\ mainpc = "verified"
  /\ marker' = IF WritesMarker(result) THEN TRUE ELSE marker
  /\ mainpc' = "done"
  /\ UNCHANGED <<disk, verifyVars, mainFrame>>

\* main() has returned and the program is started again, the same command
\* line and manifest, the directory as the run before left it
RunAgain ==
  /\ mainpc = "done"
  /\ runs + 1 < MaxRuns
  /\ runs' = runs + 1
  /\ mainpc' = "main"
  /\ vi' = 1
  /\ pass_files' = <<>>
  /\ miss_files' = <<>>
  /\ crash_files' = <<>>
  /\ result' = FALSE
  /\ UNCHANGED <<disk, marker, spawned, queueVars, index, wpc, wl, histVars,
                 args, dump_dict, disk0, marker0, bad>>

\* ------------------------------------------------------------ specification
WorkerStep(w) ==
  \/ WorkerStart(w)
  \/ Acquire(w)
  \/ PopUrl(w)
  \/ PopFile(w)
  \/ Release(w)
  \/ Check(w)
  \/ GmCompare(w)
  \/ GmLoad(w)
  \/ GmStore(w)
  \/ GmReturn(w)
  \/ Retrieve(w)
  \/ Writing(w)

Next ==
  \/ Main
  \/ Build
  \/ Spawn
  \/ Join
  \/ VerifyStep
  \/ VerifyReturn
  \/ WriteMarker
  \/ \E w \in Threads : WorkerStep(w)

Spec == Init /\ [][Next]_vars

\* a download run only
NextDownload ==
  \/ Main
  \/ Build
  \/ Spawn
  \/ Join
  \/ \E w \in Threads : WorkerStep(w)

SpecRace == InitRace /\ [][NextDownload]_vars

\* main() up to the construction of the task queue
NextBuild ==
  \/ Main
  \/ Build

SpecBuild == InitBuild /\ [][NextBuild]_vars

\* a verify run only
NextVerify ==
  \/ Main
  \/ VerifyStep
  \/ VerifyReturn
  \/ WriteMarker

SpecVerify == InitVerifyOnly /\ [][NextVerify]_vars

\* a download run with one worker thread
SpecSingle == InitSingle /\ [][NextDownload]_vars

\* the interpreter runs every thread that can take a step: the main thread
\* and each worker go on as long as they are not blocked (on the lock, in join)
MainStep == Main \/ Build \/ Spawn \/ Join
Fairness == WF_vars(MainStep) /\ \A w \in Threads : WF_vars(WorkerStep(w))

\* a download run, fairly scheduled, with files that never transfer
SpecStall == InitStall /\ [][NextDownload]_vars /\ Fairness

\* a download run, fairly scheduled, on a network that lets every file through
SpecFair == InitFair /\ [][NextDownload]_vars /\ Fairness

\* verify runs one after the other
NextVerifyAgain ==
  \/ NextVerify
  \/ RunAgain

SpecVerifyAgain == InitVerifyOnly /\ [][NextVerifyAgain]_vars

\* ================================================================== claims
\* the run is a download run whose task queue has been constructed
QueueBuilt == ~args.verify /\ ~marker0 /\ mainpc \in {"spawn", "join", "done"}

\* the lists handed to WikiDumpTask by download()
TaskUrls == handed.url_list
TaskPaths == handed.file_list

\* positions of the worker inside the lock, and inside the retry loop
InLock == {"pop_url", "pop_file", "release", "raise"}
BetweenAttempts == {"get_mirror", "gm_load", "gm_store", "gm_return", "retrieve"}
InRetry == BetweenAttempts \cup {"writing"}

\* how often x occurs in the sequence s
Occurrences(s, x) == Cardinality({i \in 1..Len(s) : s[i] = x})

\* the urls returned by the successful claims, in order
ClaimedUrls == [k \in 1..Len(claimed) |-> claimed[k][1]]

\* the workers inside assign_task that hold the popped url x
Holding(x) == {w \in Threads : wpc[w] \in {"pop_file", "release"} /\ wl[w].url = x}

\* C1: under any number of concurrent assign_task callers every task of the
\* original list is, at any time, in exactly one place: still in the queue,
\* in the hands of the one caller inside the lock, or returned by exactly one
\* successful claim; every successful claim returned a (url, file) pair of the
\* original list; and once the queue is exhausted and nobody is inside the
\* lock, exactly N successful claims have occurred.
C1_EveryTaskClaimedOnce ==
  QueueBuilt =>
    LET urls == TaskUrls
        paths == TaskPaths
        returned == ClaimedUrls
    IN /\ \A i \in 1..Len(urls) :
            Occurrences(returned, urls[i]) + Cardinality(Holding(urls[i]))
              + Occurrences(url_list, urls[i]) = 1
       /\ \A k \in 1..Len(claimed) :
            \E i \in 1..Len(urls) :
              claimed[k][1] = urls[i] /\ claimed[k][2] = paths[i]
       /\ (url_list = <<>> /\ \A w \in Threads : wpc[w] \notin InLock)
            => Len(claimed) = Len(urls)

\* two workers have claimed concurrently: one is returning with a task while
\* the other is already working on the task it claimed before
C1_Witness ==
  /\ QueueBuilt
  /\ \E w1, w2 \in Threads :
       /\ w1 # w2
       /\ wpc[w1] = "release" /\ wl[w1].url # None
       /\ wpc[w2] \in InRetry
       /\ Len(claimed) >= 1

\* C2: the k-th successful assign_task call of the run returns the k-th task
\* of the list handed to the queue, with cur_progress = k and total = N.
C2_ClaimsInListOrder ==
  QueueBuilt =>
    LET urls == TaskUrls
        paths == TaskPaths
    IN \A k \in 1..Len(claimed) :
         /\ k <= Len(urls)
         /\ claimed[k] = <<urls[k], paths[k], Num(k), Num(Len(urls))>>

\* every task of a list of at least two has been claimed
C2_Witness ==
  /\ QueueBuilt
  /\ Len(TaskUrls) >= 2
  /\ Len(claimed) = Len(TaskUrls)

\* a call of assign_task by w that finds the queue empty
EmptyCall(w) ==
  /\ wpc[w] \in {"pop_url", "release"}
  /\ wl[w].url = None
  /\ url_list = <<>>

C3_Step ==
  \A w \in Threads :
    (EmptyCall(w) /\ wpc'[w] # wpc[w]) =>
      /\ UNCHANGED <<url_list, file_list, total_num>>
      /\ wpc'[w] \in {"release", "assigned"}
      /\ wpc'[w] = "assigned" =>
           /\ wl'[w].url = None
           /\ wl'[w].file_name = None
           /\ ~lock'

C3_LockHeldOnlyInside == lock => \E w \in Threads : wpc[w] \in InLock

\* C3: a call of assign_task on an empty queue returns None for the task,
\* raises nothing, leaves url_list, file_list and total_num unchanged and has
\* released the lock when it returns; the lock is never left held with no
\* caller inside it, so no later caller waits forever.
C3_EmptyClaim == [][C3_Step]_vars /\ []C3_LockHeldOnlyInside

\* two workers have called assign_task on the exhausted queue of a run that
\* had tasks: one has left, the other has just got None
C3_Witness ==
  /\ QueueBuilt
  /\ total_num > 0
  /\ \E w1, w2 \in Threads :
       /\ w1 # w2
       /\ wpc[w1] = "exit"
       /\ wpc[w2] = "assigned" /\ wl[w2].url = None /\ ~lock

\* C4: under concurrent get_mirror calls the cursor always indexes an entry of
\* the mirror list, and no call is about to subscript the list out of range.
C4_CursorAlwaysValid ==
  /\ InRange(index)
  /\ \A w \in Threads : wpc[w] = "gm_return" => InRange(index)

\* C5: a failed transfer attempt leaves no file at the destination: whenever
\* a worker is in its retry loop and not inside a transfer (before its first
\* attempt, or after a failed one), the destination path of its task does not
\* pass the existence check.
C5_FailedAttemptLeavesNoFile ==
  \A w \in Threads :
    wpc[w] \in BetweenAttempts => ~Exists(wl[w].file_name)

\* every enqueued task's destination existed when the run started
AllExisted0 == \A p \in Range(TaskPaths) : disk0[NameOf(p)] # "absent"

\* C6: a worker is in the retry loop only for a task whose destination did
\* not exist at its existence check; and a download run started with every
\* enqueued destination present makes no get_mirror call and no urlretrieve
\* call and leaves every file as it was.
C6_NoTransferWhenPresent ==
  /\ \A w \in Threads : wpc[w] \in InRetry => ~wl[w].exists
  /\ (QueueBuilt /\ AllExisted0) =>
       /\ nmirror = 0
       /\ nretrieve = 0
       /\ disk = disk0

\* a download run over a fully present directory has ended with every task
\* claimed (and skipped) by its workers
C6_Witness ==
  /\ QueueBuilt
  /\ mainpc = "done"
  /\ AllExisted0
  /\ Len(TaskPaths) >= 2
  /\ Len(claimed) = Len(TaskPaths)

\* C7: when download() returns it has started exactly thread_num workers,
\* every one of them has terminated, and every enqueued task has been
\* claimed, with or without a proxy.
C7_ReturnsWithQueueDrained ==
  (QueueBuilt /\ mainpc = "done") =>
    /\ spawned = args.threads
    /\ \A w \in 1..spawned : Dead(w)
    /\ url_list = <<>>
    /\ Len(claimed) = Len(TaskUrls)

\* the ascending arrangement of a set of filenames, stated directly: the
\* least one first, then the arrangement of the others
RECURSIVE AscendingOf(_)
AscendingOf(S) ==
  IF S = {} THEN <<>>
  ELSE LET least == CHOOSE x \in S : \A y \in S : x <= y
       IN <<least>> \o AscendingOf(S \ {least})

Ascending(dict) == AscendingOf(Range(dict))

\* the entries at positions lo..hi of the sequence s
Positions(s, lo, hi) == [i \in 1..(IF hi >= lo THEN hi - lo + 1 ELSE 0) |-> s[lo + i - 1]]

\* C8: for a manifest of N files, 1 <= s <= N and an end index e, the queue
\* built by download() holds the sorted entries at positions s..e, in order,
\* when 1 <= e <= N, and those at positions s..N when e is -1, 0 or above N.
C8_QueueIsTheSlice ==
  LET N == Len(dump_dict)
      s == args.start
      e == args.end
      expected == IF 1 <= e /\ e <= N
                    THEN Positions(Ascending(dump_dict), s, e)
                    ELSE Positions(Ascending(dump_dict), s, N)
  IN (QueueBuilt /\ 1 <= s /\ s <= N /\ e >= -1) =>
       /\ url_list = [i \in 1..Len(expected) |-> ManifestUrl(expected[i])]
       /\ file_list = [i \in 1..Len(expected) |-> Path(expected[i])]
       /\ total_num = Len(expected)

\* the queue of a manifest of five files listed out of order, --start 2
\* --end 4: the files at the sorted positions 2, 3, 4
C8_Witness ==
  /\ QueueBuilt
  /\ Len(dump_dict) = 5
  /\ dump_dict # Ascending(dump_dict)
  /\ args.start = 2 /\ args.end = 4
  /\ url_list = <<ManifestUrl(Ascending(dump_dict)[2]),
                  ManifestUrl(Ascending(dump_dict)[3]),
                  ManifestUrl(Ascending(dump_dict)[4])>>

\* the local file f as the run found it: present, and with the expected md5
Present0(f) == disk0[f] # "absent"
Matches0(f) == Md5(f, disk0[f]) = ManifestMd5(f)

\* verify() has returned to main()
Verified == args.verify /\ ~marker0 /\ mainpc \in {"verified", "done"}

\* C9: when verify() has returned, every manifest entry is in exactly one of
\* pass_files (file present with the expected md5), crash_files (present with
\* another md5, and now removed from the disk) and miss_files (absent); the
\* three counts add up to the number of entries; and the result is true iff
\* miss_files and crash_files are both empty.
C9_VerifyClassifies ==
  Verified =>
    /\ \A f \in Range(dump_dict) :
         /\ Occurrences(pass_files, f) = (IF Present0(f) /\ Matches0(f) THEN 1 ELSE 0)
         /\ Occurrences(crash_files, f) = (IF Present0(f) /\ ~Matches0(f) THEN 1 ELSE 0)
         /\ Occurrences(miss_files, f) = (IF ~Present0(f) THEN 1 ELSE 0)
         /\ (Present0(f) /\ ~Matches0(f)) => disk[f] = "absent"
         /\ ~(Present0(f) /\ ~Matches0(f)) => disk[f] = disk0[f]
    /\ Len(pass_files) + Len(crash_files) + Len(miss_files) = Len(dump_dict)
    /\ result <=> (Len(miss_files) = 0 /\ Len(crash_files) = 0)

\* three files, two present with the right md5 and one absent: 2 passed,
\* 1 missing, 0 crashed, the result false and no marker
C9_Witness ==
  /\ Verified
  /\ mainpc = "done"
  /\ Len(dump_dict) = 3
  /\ Len(pass_files) = 2 /\ Len(miss_files) = 1 /\ Len(crash_files) = 0
  /\ ~result
  /\ ~marker

\* C10: the marker is created only by a verify run whose verification found
\* nothing missing and nothing crashed: if this run created COMPLETE.txt, it
\* ran in verify mode, verify() returned true, and every manifest file is on
\* the disk with the expected md5; a download run and a failed verification
\* leave the marker as it was.
C10_MarkerOnlyAfterFullVerify ==
  /\ (marker /\ ~marker0) =>
       /\ args.verify
       /\ mainpc = "done"
       /\ result
       /\ \A f \in Range(dump_dict) :
            disk[f] # "absent" /\ Md5(f, disk[f]) = ManifestMd5(f)
  /\ ~args.verify => marker = marker0
  /\ (Verified /\ ~result) => marker = marker0

\* a verify run has created the marker
C10_Witness == marker /\ ~marker0 /\ args.verify /\ Len(dump_dict) >= 2

\* C11: a run of main() started with COMPLETE.txt present, in download or in
\* verify mode, starts no worker, builds no queue and claims no task, selects
\* no mirror and transfers nothing, checksums and removes no file, and leaves
\* the marker and every file as they were.
C11_MarkerShortCircuits ==
  marker0 =>
    /\ mainpc \in {"main", "done"}
    /\ marker
    /\ disk = disk0
    /\ spawned = 0
    /\ \A w \in Threads : wpc[w] = "idle"
    /\ url_list = <<>> /\ file_list = <<>> /\ claimed = <<>>
    /\ nmirror = 0 /\ nretrieve = 0
    /\ vi = 1
    /\ pass_files = <<>> /\ miss_files = <<>> /\ crash_files = <<>>

\* a download run with a proxy, a missing file and the marker present has
\* returned from main()
C11_Witness ==
  /\ marker0
  /\ mainpc = "done"
  /\ ~args.verify
  /\ args.proxies
  /\ \E f \in Range(dump_dict) : disk0[f] = "absent"

\* the mirror a get_mirror() call returns when it is the k-th of the run
KthMirror(k) == WIKIMEDIA_MIRRORS[k % NumMirrors]

\* C12: with a single caller, the k-th get_mirror() call on a fresh selector
\* returns the mirror at index k mod M of the list of M mirrors and never
\* raises: the first call returns index 1, index 0 comes only after the last
\* index, and the returns repeat with period M, each mirror once per period.
C12_Step ==
  \A w \in Threads :
    (wpc[w] = "gm_return" /\ wpc'[w] # "gm_return") =>
      /\ wpc'[w] = "retrieve"
      /\ InRange(index)
      /\ index = nmirror % NumMirrors
      /\ WIKIMEDIA_MIRRORS[index] = KthMirror(nmirror)
C12_RoundRobin == [][C12_Step]_vars

\* the call after a whole period has returned the mirror at index 1 again
C12_Witness ==
  \E w \in Threads :
    /\ wpc[w] = "retrieve"
    /\ nmirror = NumMirrors + 1
    /\ index = 1

\* a worker in the retry loop of a file that never transfers
Stalled(w) ==
  /\ wpc[w] \in InRetry
  /\ NameOf(wl[w].file_name) \in bad

\* every task has been claimed and every file that can transfer is there
OthersServed ==
  /\ QueueBuilt
  /\ Len(claimed) = Len(TaskUrls)
  /\ \A p \in Range(TaskPaths) : NameOf(p) \notin bad => disk[NameOf(p)] = "complete"

\* C13: under fair scheduling, with fewer persistently failing tasks than
\* workers and every other transfer succeeding after finitely many failures,
\* every task is eventually claimed and every other file is eventually
\* present, and a worker stalled on a failing task never leaves its loop.
C13_StallBlocksNoOther ==
  /\ <>[]OthersServed
  /\ [][\A w \in Threads : Stalled(w) => Stalled(w)']_vars

\* the same for the runs that were given a proxy
C13_WithProxy ==
  /\ <>[](args.proxies => OthersServed)
  /\ [][\A w \in Threads : Stalled(w) => Stalled(w)']_vars

\* the WikiDumpTask exists
Constructed == mainpc \notin {"main", "download"}

\* C14: total_num is the length of the list WikiDumpTask was constructed with
\* and never changes, and the remaining count never grows: the pop of each
\* assign_task call takes it down by exactly one, or leaves it at zero.
C14_Step ==
  Constructed =>
    /\ total_num' = total_num
    /\ Len(url_list') <= Len(url_list)
    /\ \A w \in Threads :
         (wpc[w] = "pop_url" /\ wpc'[w] # "pop_url") =>
           Len(url_list') = IF url_list = <<>> THEN 0 ELSE Len(url_list) - 1
    /\ url_list' # url_list =>
         \E w \in Threads : wpc[w] = "pop_url" /\ wpc'[w] # "pop_url"
C14_TotalFixedCountFalls ==
  /\ [](Constructed /\ ~args.verify /\ ~marker0 => total_num = Len(TaskUrls))
  /\ [][C14_Step]_vars

\* a call on the drained queue of a run of two or more tasks has returned
C14_Witness ==
  /\ QueueBuilt
  /\ total_num >= 2
  /\ url_list = <<>>
  /\ \E w \in Threads : wpc[w] = "assigned" /\ wl[w].url = None

\* every thread has ended and download() has returned
Terminated ==
  /\ mainpc = "done"
  /\ \A w \in Threads : wpc[w] \in {"idle", "exit", "crashed"}

\* every task that entered the retry loop was downloaded, once
EnteredAreDownloaded ==
  \A f \in DOMAIN entered :
    entered[f] > 0 => (downloaded[f] = 1 /\ disk[f] = "complete")

\* a worker leaves the retry loop only by a transfer that ended well: the
\* file is there, one "File Downloaded" line is logged, assign_task is next
C15_Leave ==
  \A w \in Threads :
    (wpc[w] \in InRetry /\ wpc'[w] \notin InRetry) =>
      LET f == NameOf(wl[w].file_name)
      IN /\ wpc'[w] = "assign"
         /\ disk'[f] = "complete"
         /\ downloaded'[f] = downloaded[f] + 1

C16_OneWorkerPerDestination ==
  /\ \A v, w \in Threads :
       (v # w /\ wpc[v] \in InRetry /\ wpc[w] \in InRetry) =>
         wl[v].file_name # wl[w].file_name
  /\ \A f \in DOMAIN entered : entered[f] <= 1

\* two workers are writing the blocks of their files at the same time
C16_Witness ==
  \E v, w \in Threads :
    /\ v # w
    /\ wpc[v] = "writing" /\ wpc[w] = "writing"
    /\ disk[NameOf(wl[v].file_name)] = "partial"
    /\ disk[NameOf(wl[w].file_name)] = "partial"

\* C17: inside the retry loop every urlretrieve attempt is reached from a
\* get_mirror() call of its own, an attempt that raises is followed by the
\* next round of the loop however many have failed, the task stays the same,
\* and the worker leaves the loop (to claim again or to end) only by an
\* attempt that succeeded.
C17_Step ==
  /\ \A w \in Threads :
       /\ (wpc'[w] = "retrieve" /\ wpc[w] # "retrieve") => wpc[w] = "gm_return"
       /\ (wpc[w] = "retrieve" /\ wpc'[w] # "retrieve") =>
            wpc'[w] \in {"writing", "get_mirror"}
       /\ (wpc[w] = "writing" /\ wpc'[w] # "writing") =>
            \/ wpc'[w] = "get_mirror" /\ wl'[w] = wl[w]
            \/ wpc'[w] = "assign" /\ disk'[NameOf(wl[w].file_name)] = "complete"
       /\ (wpc[w] \in InRetry /\ wpc'[w] \in InRetry) =>
            /\ wl'[w].url = wl[w].url
            /\ wl'[w].file_name = wl[w].file_name
       /\ (wpc[w] \in InRetry /\ wpc'[w] \notin InRetry) => wpc[w] = "writing"
  /\ nretrieve' # nretrieve =>
       \E w \in Threads : wpc[w] = "retrieve" /\ wpc'[w] # "retrieve"
C17_RetryUntilSuccess ==
  /\ [](nretrieve <= nmirror)
  /\ [][C17_Step]_vars

\* the first task's attempts have failed more often than there are mirrors,
\* and the worker is about to try again
C17_Witness ==
  \E w \in Threads :
    /\ wpc[w] = "retrieve"
    /\ Len(claimed) = 1
    /\ nretrieve > NumMirrors
    /\ failures < NumMirrors

\* an assign_task call that found the queue empty has returned to worker w
ReturnedNone(w) == wpc[w] = "assigned" /\ wl[w].url = None

\* C18, as stated: on an empty queue the local path, the position and the
\* total returned with the None url are all None.
C18_AllSentinel ==
  \A w \in Threads :
    ReturnedNone(w) =>
      /\ wl[w].file_name = None
      /\ wl[w].cur_progress = None
      /\ wl[w].total_num = None

\* C18, amended: on an empty queue the local path and the position returned
\* with the None url are None, and the total is total_num as in every call.
C18_NoneButTotal ==
  \A w \in Threads :
    ReturnedNone(w) =>
      /\ wl[w].file_name = None
      /\ wl[w].cur_progress = None
      /\ wl[w].total_num = Num(total_num)
      /\ wl[w].total_num # None

\* a call on the drained queue returned the total of the run's tasks
C18_Witness ==
  \E w \in Threads :
    /\ ReturnedNone(w)
    /\ Len(claimed) = MaxFiles
    /\ wl[w].total_num = Num(MaxFiles)

\* the positions of the handed lists at which x is the url and y the file
PairedAt(x, y) ==
  {i \in 1..Len(TaskUrls) : TaskUrls[i] = x /\ TaskPaths[i] = y}

\* C19: whenever the lock is free, url_list and file_list are equally long,
\* and every assign_task that hands out a task returns the url and the file
\* of one position of the lists, that is of one manifest entry, however the
\* callers interleave.
C19_ListsInStep ==
  /\ (Constructed /\ ~lock) => Len(url_list) = Len(file_list)
  /\ \A k \in 1..Len(claimed) :
       /\ PairedAt(claimed[k][1], claimed[k][2]) # {}
       /\ NameOf(claimed[k][1]) = NameOf(claimed[k][2])
  /\ \A w \in Threads :
       (wpc[w] = "assigned" /\ wl[w].url # None) =>
         PairedAt(wl[w].url, wl[w].file_name) # {}

\* one task is handed out, one is left, the lock is free and a second worker
\* is about to call
C19_Witness ==
  /\ ~lock
  /\ Len(claimed) = 1
  /\ Len(url_list) >= 1
  /\ \E v, w \in Threads :
       /\ v # w
       /\ wpc[v] = "assigned" /\ wl[v].url # None
       /\ wpc[w] = "assign"

\* the loop of verify() has gone through the manifest in this run
VerifyReturned ==
  /\ args.verify
  /\ mainpc \in {"verified", "done"}
  /\ vi > Len(dump_dict)

\* what the first verify() found
Passed0(f) == Present0(f) /\ Matches0(f)
NotPassed0(f) == ~Passed0(f)

\* C20: when verify() has returned, no manifest file present on the disk has
\* an md5 other than the expected one: the crashed files are removed, the
\* passed and the missing ones are as they were; and a verify() of a later
\* run on the unchanged directory reports no crashed file, the same passed
\* files, and the former crashed files among the missing.
C20_VerifyLeavesNoCrashed ==
  VerifyReturned =>
    /\ \A f \in Range(dump_dict) :
         /\ Exists(Path(f)) => Md5(f, disk[f]) = ManifestMd5(f)
         /\ disk[f] = (IF Passed0(f) THEN disk0[f] ELSE "absent")
    /\ runs >= 1 =>
         /\ crash_files = <<>>
         /\ pass_files = SelectSeq(dump_dict, Passed0)
         /\ miss_files = SelectSeq(dump_dict, NotPassed0)
         /\ ~result

\* the verify() of a second run has returned where the first found a passed,
\* a crashed and a missing file
C20_Witness ==
  /\ VerifyReturned
  /\ runs = 1
  /\ \E f, g, h \in Range(dump_dict) :
       /\ disk0[f] = "complete"
       /\ disk0[g] = "partial"
       /\ disk0[h] = "absent"
       /\ g \in Range(miss_files)

====
